---------------------------- MODULE Spec2Model ----------------------------
(***************************************************************************)
(* SQL Noir: the answer-validation engine (execQuery, the three textual    *)
(* variants of makeStandardValidator) and the StepCard session that calls  *)
(* it (runSql / check on one shared sql.js database handle).               *)
(*                                                                         *)
(* JavaScript values are modelled as records [t, n, s]: t is the typeof    *)
(* tag ("null", "number", "string", "boolean", "undefined"), n the numeric *)
(* value and s the string as a sequence of UTF-16 code units.  Unused      *)
(* fields are 0 and <<>>, so record equality is JavaScript's strict        *)
(* equality (===).  A QueryResult is a record [columns, rows]; Null is     *)
(* also the null of QueryResult | null and string | null.                  *)
(***************************************************************************)
EXTENDS Integers, Sequences, FiniteSets, TLC

(***************************************************************************)
(* Bounds of the model.                                                    *)
(***************************************************************************)
\* the longest result (number of rows) the validator is applied to
MaxRows == 2

\* the case notes App keeps
MaxNotes == 4

\* the calls of initDb() that may be pending at once
MaxLoading == 1

(***************************************************************************)
(* JavaScript values.                                                      *)
(***************************************************************************)
Null == [t |-> "null", n |-> 0, s |-> <<>>]

Undefined == [t |-> "undefined", n |-> 0, s |-> <<>>]

Num(k) == [t |-> "number", n |-> k, s |-> <<>>]

Str(codes) == [t |-> "string", n |-> 0, s |-> codes]

\* the code units String.prototype.trim removes (the ones that fit the model)
WhiteSpace == {9, 10, 11, 12, 13, 32}

\* s.trim(): s without its leading and trailing white space
RECURSIVE trimStart(_)
trimStart(s) ==
  IF s # <<>> /\ Head(s) \in WhiteSpace THEN trimStart(Tail(s)) ELSE s

RECURSIVE trimEnd(_)
trimEnd(s) ==
  IF s # <<>> /\ s[Len(s)] \in WhiteSpace
  THEN trimEnd(SubSeq(s, 1, Len(s) - 1))
  ELSE s

trim(s) == trimEnd(trimStart(s))

\* norm with null coerced to the empty string, as (v ?? '') would
norm_NullAsEmpty(v) ==
  IF v.t = "string" THEN Str(trim(v.s))
  ELSE IF v.t = "null" THEN Str(<<>>)
  ELSE v

\* const norm = (v: any) => (typeof v === 'string' ? v.trim() : v);
norm(v) == IF v.t = "string" THEN Str(trim(v.s)) ELSE v

\* the variants that compare raw values: A[i][j] !== B[i][j]
raw(v) == v

(***************************************************************************)
(* Array.prototype.sort() without a comparator: the elements are compared  *)
(* by their ToString images, code unit by code unit; the sort is stable.   *)
(* A row is an array, so its image is its join(","), where null and        *)
(* undefined give the empty string.                                        *)
(***************************************************************************)
\* Number::toString of a natural number, as code units
RECURSIVE NumberToString(_)
NumberToString(k) ==
  IF k < 10 THEN <<48 + k>>
  ELSE NumberToString(k \div 10) \o <<48 + (k % 10)>>

ValueToString(v) ==
  CASE v.t = "string" -> v.s
    [] v.t = "number" -> NumberToString(v.n)
    [] OTHER -> <<>>

\* Array.prototype.join(",") of one row
RECURSIVE RowToString(_)
RowToString(row) ==
  IF row = <<>> THEN <<>>
  ELSE IF Len(row) = 1 THEN ValueToString(row[1])
  ELSE ValueToString(row[1]) \o <<44>> \o RowToString(Tail(row))

\* x < y on strings: lexicographic over the code units
RECURSIVE StrLess(_, _)
StrLess(x, y) ==
  IF y = <<>> THEN FALSE
  ELSE IF x = <<>> THEN TRUE
  ELSE IF Head(x) # Head(y) THEN Head(x) < Head(y)
  ELSE StrLess(Tail(x), Tail(y))

\* SortCompare(x, y) < 0 for two rows
RowBefore(x, y) == StrLess(RowToString(x), RowToString(y))

\* stable insertion of row r into the sorted sequence: after every element
\* that does not compare greater than it
RECURSIVE InsertRow(_, _)
InsertRow(sorted, r) ==
  IF sorted = <<>> THEN <<r>>
  ELSE IF RowBefore(r, Head(sorted)) THEN <<r>> \o sorted
  ELSE <<Head(sorted)>> \o InsertRow(Tail(sorted), r)

RECURSIVE SortFrom(_, _)
SortFrom(sorted, rest) ==
  IF rest = <<>> THEN sorted
  ELSE SortFrom(InsertRow(sorted, Head(rest)), Tail(rest))

\* [...rows].sort()
sort(rows) == SortFrom(<<>>, rows)

(***************************************************************************)
(* JSON.stringify of an array of column names.                             *)
(***************************************************************************)
\* one name between double quotes, the quote and the backslash escaped
RECURSIVE QuoteChars(_)
QuoteChars(s) ==
  IF s = <<>> THEN <<>>
  ELSE (IF Head(s) \in {34, 92} THEN <<92, Head(s)>> ELSE <<Head(s)>>)
       \o QuoteChars(Tail(s))

QuoteString(s) == <<34>> \o QuoteChars(s) \o <<34>>

RECURSIVE JoinQuoted(_)
JoinQuoted(cols) ==
  IF cols = <<>> THEN <<>>
  ELSE IF Len(cols) = 1 THEN QuoteString(cols[1])
  ELSE QuoteString(cols[1]) \o <<44>> \o JoinQuoted(Tail(cols))

JSONstringify(cols) == <<91>> \o JoinQuoted(cols) \o <<93>>

(***************************************************************************)
(* The engine's answer to db.exec(sql): it throws an Error with a message, *)
(* or returns the list of result sets {columns, values}.                   *)
(***************************************************************************)
Threw(msg) == [threw |-> TRUE, message |-> msg, res |-> <<>>]

Returned(sets) == [threw |-> FALSE, message |-> "", res |-> sets]

\* execQuery that keeps the last result set instead of the first
execQuery_LastSet(out) ==
  IF Len(out.res) = 0 THEN [columns |-> <<>>, rows |-> <<>>]
  ELSE [columns |-> out.res[Len(out.res)].columns,
        rows |-> out.res[Len(out.res)].values]

\* what execQuery returns when db.exec returned `out` (it did not throw)
execQuery(out) ==
  IF Len(out.res) = 0 THEN [columns |-> <<>>, rows |-> <<>>]
  ELSE [columns |-> out.res[1].columns, rows |-> out.res[1].values]

(***************************************************************************)
(* makeStandardValidator.  The repository holds three texts of it:         *)
(*   "chapter2"  trims strings, checks the row shape, two mismatch hints   *)
(*   "chapter5"  compares raw values, checks the row shape, one hint       *)
(*   "part_004"  trims strings, no row-shape check, two mismatch hints     *)
(***************************************************************************)
Bool(b) == [t |-> "boolean", n |-> IF b THEN 1 ELSE 0, s |-> <<>>]

\* enforceOrderOf with the default the other way round: opts?.enforceOrder ?? false
enforceOrderOf_DefaultFalse(opts) ==
  LET field == IF opts = Undefined THEN Undefined ELSE opts.enforceOrder
  IN IF field \in {Undefined, Null} THEN FALSE ELSE field = Bool(TRUE)

\* const enforceOrder = opts?.enforceOrder ?? true;
enforceOrderOf(opts) ==
  LET field == IF opts = Undefined THEN Undefined ELSE opts.enforceOrder
  IN IF field \in {Undefined, Null} THEN TRUE ELSE field = Bool(TRUE)

\* r[j] of a JavaScript array (1-based here): undefined past the end
At(r, j) == IF j \in 1..Len(r) THEN r[j] ELSE Undefined

\* what one text of makeStandardValidator does differently from the others:
\* trims (norm applied to both values), shapeChecked (the ra.length !==
\* rb.length test), twoHints (the hint of a value mismatch follows the policy)
Traits(variant) ==
  CASE variant = "chapter2" ->
         [trims |-> TRUE, shapeChecked |-> TRUE, twoHints |-> TRUE]
    [] variant = "chapter5" ->
         [trims |-> FALSE, shapeChecked |-> TRUE, twoHints |-> FALSE]
    [] variant = "part_004" ->
         [trims |-> TRUE, shapeChecked |-> FALSE, twoHints |-> TRUE]

\* the two sides of the !== of the inner loop: norm(ra[j]), norm(rb[j]) in
\* the trimming texts, A[i][j], B[i][j] in the others
Compared(traits, v) == IF traits.trims THEN norm(v) ELSE raw(v)

\* the hint of a value mismatch
ValueHint(traits, enforceOrder) ==
  IF traits.twoHints /\ ~enforceOrder THEN "Values differ."
  ELSE "Ordering or values differ."

\* LoopVerdict that compares the first row only
LoopVerdict_FirstRowOnly(traits, enforceOrder, A, B) ==
  IF A = <<>> THEN [ok |-> TRUE]
  ELSE IF traits.shapeChecked /\ Len(A[1]) # Len(B[1])
  THEN [ok |-> FALSE, hint |-> "Row shape mismatch."]
  ELSE IF \E j \in 1..Len(A[1]) :
            Compared(traits, At(A[1], j)) # Compared(traits, At(B[1], j))
  THEN [ok |-> FALSE, hint |-> ValueHint(traits, enforceOrder)]
  ELSE [ok |-> TRUE]

\* LoopVerdict with norm applied to the learner's value only
LoopVerdict_NormOneSide(traits, enforceOrder, A, B) ==
  LET ShapeBad(i) == traits.shapeChecked /\ Len(A[i]) # Len(B[i])
      ValueBad(i) == \E j \in 1..Len(A[i]) :
                        Compared(traits, At(A[i], j)) # raw(At(B[i], j))
      Bad == {i \in 1..Len(A) : ShapeBad(i) \/ ValueBad(i)}
  IN IF Bad = {} THEN [ok |-> TRUE]
     ELSE LET i == CHOOSE k \in Bad : \A m \in Bad : k <= m
          IN IF ShapeBad(i) THEN [ok |-> FALSE, hint |-> "Row shape mismatch."]
             ELSE [ok |-> FALSE, hint |-> ValueHint(traits, enforceOrder)]

\* the verdict of the two nested loops over A and B (A.length = B.length):
\* the first row i, in order, that fails the shape test (when the text has
\* one) or holds a j with a value mismatch decides
LoopVerdict(traits, enforceOrder, A, B) ==
  LET ShapeBad(i) == traits.shapeChecked /\ Len(A[i]) # Len(B[i])
      ValueBad(i) == \E j \in 1..Len(A[i]) :
                        Compared(traits, At(A[i], j)) # Compared(traits, At(B[i], j))
      Bad == {i \in 1..Len(A) : ShapeBad(i) \/ ValueBad(i)}
  IN IF Bad = {} THEN [ok |-> TRUE]
     ELSE LET i == CHOOSE k \in Bad : \A m \in Bad : k <= m
          IN IF ShapeBad(i) THEN [ok |-> FALSE, hint |-> "Row shape mismatch."]
             ELSE [ok |-> FALSE, hint |-> ValueHint(traits, enforceOrder)]

\* Ordered with the policy ignored: both sides always sorted
Ordered_AlwaysSorted(enforceOrder, rows) == sort(rows)

\* the rows the loops walk: the rows themselves, or sorted copies
Ordered(enforceOrder, rows) == IF enforceOrder THEN rows ELSE sort(rows)

\* if (!user) return { ok: false, hint: 'Run your SQL first.' };
NotRun == [ok |-> FALSE, hint |-> "Run your SQL first."]

\* InternalFailure with the engine's message handed to the learner
InternalFailure_Leaks(out) == [ok |-> FALSE, hint |-> out.message]

\* catch { return { ok: false, hint: 'Internal model failed.' }; }
\* out is the db.exec that threw; the catch clause binds no error
InternalFailure(out) == [ok |-> FALSE, hint |-> "Internal model failed."]

\* colsMatch on the sets of names: the order and the count are not compared
colsMatch_AsSets(user, model) ==
  {user.columns[i] : i \in 1..Len(user.columns)}
    = {model.columns[i] : i \in 1..Len(model.columns)}

\* JSON.stringify(user.columns) === JSON.stringify(model.columns)
colsMatch(user, model) == JSONstringify(user.columns) = JSONstringify(model.columns)

ColumnsMismatch == [ok |-> FALSE, hint |-> "Columns mismatch. Check names/order."]

\* RowCountMismatch stating the learner's own row count
RowCountMismatch_UserCount(user, model) ==
  [ok |-> FALSE, hint |-> "Row count should be " \o ToString(Len(user.rows)) \o "."]

\* return { ok: false, hint: `Row count should be ${model.rows.length}.` };
RowCountMismatch(user, model) ==
  [ok |-> FALSE, hint |-> "Row count should be " \o ToString(Len(model.rows)) \o "."]

\* Compare with the row-count check made before the column check
Compare_RowCountFirst(traits, enforceOrder, user, model) ==
  IF Len(user.rows) # Len(model.rows) THEN RowCountMismatch(user, model)
  ELSE IF ~colsMatch(user, model) THEN ColumnsMismatch
  ELSE LoopVerdict(traits, enforceOrder,
                   Ordered(enforceOrder, user.rows), Ordered(enforceOrder, model.rows))

\* the checks after model = execQuery(db, modelSql) succeeded
Compare(traits, enforceOrder, user, model) ==
  IF ~colsMatch(user, model) THEN ColumnsMismatch
  ELSE IF Len(user.rows) # Len(model.rows) THEN RowCountMismatch(user, model)
  ELSE LoopVerdict(traits, enforceOrder,
                   Ordered(enforceOrder, user.rows), Ordered(enforceOrder, model.rows))

\* AfterPresence with a reference query that returns no result set taken
\* for a failure of the reference
AfterPresence_EmptyIsFailure(traits, enforceOrder, out, user) ==
  [ran |-> TRUE,
   v |-> IF out.threw \/ out.res = <<>> THEN InternalFailure(out)
         ELSE Compare(traits, enforceOrder, user, execQuery(out))]

\* the try block and what follows it: execQuery(db, modelSql) is called
AfterPresence(traits, enforceOrder, out, user) ==
  [ran |-> TRUE,
   v |-> IF out.threw THEN InternalFailure(out)
         ELSE Compare(traits, enforceOrder, user, execQuery(out))]

\* StandardValidator with the reference query executed before the presence
\* check
StandardValidator_ExecFirst(traits, enforceOrder, out, user) ==
  IF out.threw THEN [ran |-> TRUE, v |-> InternalFailure(out)]
  ELSE IF user = Null THEN [ran |-> TRUE, v |-> NotRun]
  ELSE AfterPresence(traits, enforceOrder, out, user)

\* the function makeStandardValidator returns, applied to (db, user); `out`
\* is what db.exec(modelSql) does on that db.  Gives the verdict v and ran:
\* whether execQuery(db, modelSql) was called.
StandardValidator(traits, enforceOrder, out, user) ==
  IF user = Null THEN [ran |-> FALSE, v |-> NotRun]
  ELSE AfterPresence(traits, enforceOrder, out, user)

Variants == {"chapter2", "chapter5", "part_004"}

\* makeStandardValidator(modelSql, opts)(db, user), in the named text
makeStandardValidator(variant, opts, out, user) ==
  StandardValidator(Traits(variant), enforceOrderOf(opts), out, user)


(***************************************************************************)
(* The state.                                                              *)
(*   call, ret   the arguments of the last invocation of a validator and   *)
(*               what it returned                                          *)
(*   db          the shared sql.js database handle                         *)
(*   step        the step StepCard displays                                *)
(*   completed   the completed prop: the step's flag in the progress store *)
(*   sql, result, error, checkMsg, won, telemetry   StepCard's state       *)
(*   verdict     what the last `await step.validator(db, result)` gave     *)
(*   last        the handler that ran last and the db.exec calls it made   *)
(*   card        the text of StepCard that is mounted                      *)
(*   pos         the position chapId and stepId denote                     *)
(*   progress, notes, collapsed   the state of App                         *)
(*   storage     localStorage                                              *)
(*   overlay     showPrologue, showCh1Epilogue, showCh2Hook                *)
(*   loading     the calls of initDb() that have not resolved yet          *)
(*   hintLevel   the rung of the hint ladder (StepCard of part_008)        *)
(***************************************************************************)
VARIABLES call, ret, db, step, completed, sql, result, error, checkMsg, won,
          telemetry, verdict, last,
          card, pos, progress, notes, collapsed, storage, overlay, loading,
          hintLevel

validatorVars == <<call, ret>>

sessionVars ==
  <<db, step, completed, sql, result, error, checkMsg, won, telemetry,
    verdict, last>>

appVars ==
  <<card, pos, progress, notes, collapsed, storage, overlay, loading, hintLevel>>

vars == <<call, ret, db, step, completed, sql, result, error, checkMsg, won,
          telemetry, verdict, last,
          card, pos, progress, notes, collapsed, storage, overlay, loading,
          hintLevel>>

(***************************************************************************)
(* The inputs the validator is applied to.  A result set of the engine has *)
(* at least one row and every row has one value per column; an execution   *)
(* without result set is the canonical empty result.                       *)
(***************************************************************************)
\* "", "NULL", "23:00", "23:00 " and the names of the spec's scenario
sEmpty == <<>>

sNULL == <<78, 85, 76, 76>>

s2300 == <<50, 51, 58, 48, 48>>

s2300sp == <<50, 51, 58, 48, 48, 32>>

sAnn == <<65, 110, 110>>

sBo == <<66, 111>>

sCook == <<67, 111, 111, 107>>

sServer == <<83, 101, 114, 118, 101, 114>>

\* column names "a", "b" and "a,b"
cA == <<97>>

cB == <<98>>

cAcommaB == <<97, 44, 98>>

\* the rows of one column and of two columns the inputs are built from
Rows1 ==
  { <<v>> : v \in {Null, Num(0), Str(sEmpty), Str(sNULL), Str(s2300), Str(s2300sp)} }

Rows2 ==
  { <<Str(sAnn), Str(sCook)>>, <<Str(sBo), Str(sServer)>>, <<Str(sBo), Null>> }

\* the sequences of 1..MaxRows rows over a set of rows
RowSeqs(rowSet) == UNION { [1..k -> rowSet] : k \in 1..MaxRows }

\* the result sets the engine can report
ResultSets ==
  { [columns |-> <<cAcommaB>>, values |-> vs] : vs \in RowSeqs(Rows1) }
  \cup { [columns |-> cs, values |-> vs] :
           cs \in {<<cA, cB>>, <<cB, cA>>}, vs \in RowSeqs(Rows2) }

\* what db.exec can do with a statement: throw, report no result set,
\* report one result set
EngineError == "no such table: shift_logs"

Outcomes ==
  {Threw(EngineError), Returned(<<>>)} \cup { Returned(<<rs>>) : rs \in ResultSets }

\* the learner's stored result: null, or what execQuery gave for a Run
UserResults == {Null} \cup { execQuery(o) : o \in Outcomes \ {Threw(EngineError)} }

\* opts of makeStandardValidator(modelSql, opts?)
OptsValues ==
  { Undefined, [enforceOrder |-> Undefined],
    [enforceOrder |-> Bool(TRUE)], [enforceOrder |-> Bool(FALSE)] }

NotCalled == [done |-> FALSE]

\* the validator's argument user after the call, had the validator sorted
\* user.rows itself: user.rows.sort()
userAfter_SortedInPlace(variant, opts, out, user) ==
  IF user = Null THEN Null ELSE [user EXCEPT !.rows = sort(@)]

\* the validator's argument user after the call: as before it.  The texts
\* read user.columns and user.rows, and the order-insensitive path sorts the
\* copies [...user.rows] and [...model.rows]
userAfter(variant, opts, out, user) == user

\* what an invocation of the validator writes to the console or to any other
\* log: nothing in any text, `catch { return {ok: false, hint: ...} }` binds
\* no error and calls nothing
consoleOutput(variant, out) == <<>>

(***************************************************************************)
(* The database the session shares.  One seeded table is modelled with the *)
(* two columns the step's reference query reads, employee_name and         *)
(* clock_out, plus the existence of a second table the query never reads.  *)
(* A statement is named by what it does; dbExec is db.exec on it: what the *)
(* engine answers (out) and the database afterwards (db).  The engine      *)
(* reports a result set only for a statement that yields at least one row. *)
(***************************************************************************)
\* column names "employee_name", "clock_out" and "x" (the renamed column)
cName == <<101, 109, 112, 108, 111, 121, 101, 101, 95, 110, 97, 109, 101>>

cOut == <<99, 108, 111, 99, 107, 95, 111, 117, 116>>

cX == <<120>>

\* initDb(): the seeded shift_logs rows, in insertion order, one of them
\* with a NULL clock_out
SeedDb ==
  [tables |-> {"shift_logs", "access_logs"},
   shift_logs |-> << <<Str(sBo), Null>>, <<Str(sAnn), Str(s2300)>> >>,
   renamed |-> FALSE]

\* ORDER BY employee_name: stable insertion by the name's code units
RECURSIVE InsertByName(_, _)
InsertByName(sorted, r) ==
  IF sorted = <<>> THEN <<r>>
  ELSE IF StrLess(r[1].s, Head(sorted)[1].s) THEN <<r>> \o sorted
  ELSE <<Head(sorted)>> \o InsertByName(Tail(sorted), r)

RECURSIVE OrderByName(_)
OrderByName(rows) ==
  IF rows = <<>> THEN <<>>
  ELSE InsertByName(OrderByName(SubSeq(rows, 1, Len(rows) - 1)), rows[Len(rows)])

\* the rows with clock_out first
SwapColumns(rows) == [i \in 1..Len(rows) |-> <<rows[i][2], rows[i][1]>>]

\* the rows with employee_name || ' '
PadNames(rows) == [i \in 1..Len(rows) |-> <<Str(rows[i][1].s \o <<32>>), rows[i][2]>>]

\* the rows DELETE ... WHERE employee_name = 'Bo' keeps
RECURSIVE WithoutBo(_)
WithoutBo(rows) ==
  IF rows = <<>> THEN <<>>
  ELSE (IF Head(rows)[1] = Str(sBo) THEN <<>> ELSE <<Head(rows)>>)
       \o WithoutBo(Tail(rows))

\* a SELECT over shift_logs: it throws when the table, or a column it names,
\* is gone; it reports no result set when it yields no row
Select(d, namesClockOut, columns, rows) ==
  [db |-> d,
   out |-> IF "shift_logs" \notin d.tables THEN Threw("no such table: shift_logs")
           ELSE IF namesClockOut /\ d.renamed THEN Threw("no such column: clock_out")
           ELSE IF rows = <<>> THEN Returned(<<>>)
           ELSE Returned(<<[columns |-> columns, values |-> rows]>>)]

\* a statement that changes shift_logs and yields no result set
Mutate(d, after) ==
  IF "shift_logs" \notin d.tables
  THEN [db |-> d, out |-> Threw("no such table: shift_logs")]
  ELSE [db |-> after, out |-> Returned(<<>>)]

\* column j of the rows, as rows of one value
Column(rows, j) == [i \in 1..Len(rows) |-> <<rows[i][j]>>]

\* two SELECTs in one db.exec: the engine throws when either does, and
\* reports the result sets of those that yield rows, in order
TwoSelects(d) ==
  LET a == Select(d, FALSE, <<cName>>, Column(d.shift_logs, 1)).out
      b == Select(d, TRUE, <<cOut>>, Column(d.shift_logs, 2)).out
  IN [db |-> d,
      out |-> IF a.threw THEN a
              ELSE IF b.threw THEN b
              ELSE Returned(a.res \o b.res)]

\* the statements the learner's editor can hold
Statements ==
  {"STARTER", "REF", "SWAPPED", "PADDED", "LITERAL", "DELETE_BO", "DELETE_ALL",
   "DROP", "DROP_OTHER", "RENAME", "SYNTAX", "TWO_SELECTS"}

\* step.starterSql || 'SELECT * FROM shift_logs LIMIT 5;'
starterSql == "STARTER"

\* step.modelSql, the reference query:
\* SELECT employee_name, clock_out FROM shift_logs ORDER BY employee_name
modelSql == "REF"

dbExec(d, q) ==
  CASE q = "STARTER" ->     \* SELECT * FROM shift_logs LIMIT 5
         Select(d, FALSE, <<cName, IF d.renamed THEN cX ELSE cOut>>, d.shift_logs)
    [] q = "REF" ->
         Select(d, TRUE, <<cName, cOut>>, OrderByName(d.shift_logs))
    [] q = "SWAPPED" ->     \* SELECT clock_out, employee_name ... ORDER BY employee_name
         Select(d, TRUE, <<cOut, cName>>, SwapColumns(OrderByName(d.shift_logs)))
    [] q = "PADDED" ->      \* SELECT employee_name || ' ' AS employee_name, clock_out ...
         Select(d, TRUE, <<cName, cOut>>, PadNames(OrderByName(d.shift_logs)))
    [] q = "LITERAL" ->     \* SELECT 'Ann' AS employee_name, '23:00' AS clock_out
                            \* UNION ALL SELECT 'Bo', NULL
         [db |-> d,
          out |-> Returned(<<[columns |-> <<cName, cOut>>,
                              values |-> << <<Str(sAnn), Str(s2300)>>,
                                            <<Str(sBo), Null>> >>]>>)]
    [] q = "DELETE_BO" ->   \* DELETE FROM shift_logs WHERE employee_name = 'Bo'
         Mutate(d, [d EXCEPT !.shift_logs = WithoutBo(@)])
    [] q = "DELETE_ALL" ->  \* DELETE FROM shift_logs
         Mutate(d, [d EXCEPT !.shift_logs = <<>>])
    [] q = "DROP" ->        \* DROP TABLE shift_logs
         Mutate(d, [d EXCEPT !.tables = @ \ {"shift_logs"}, !.shift_logs = <<>>])
    [] q = "DROP_OTHER" ->  \* DROP TABLE access_logs
         IF "access_logs" \notin d.tables
         THEN [db |-> d, out |-> Threw("no such table: access_logs")]
         ELSE [db |-> [d EXCEPT !.tables = @ \ {"access_logs"}], out |-> Returned(<<>>)]
    [] q = "RENAME" ->      \* ALTER TABLE shift_logs RENAME COLUMN clock_out TO x
         IF "shift_logs" \in d.tables /\ d.renamed
         THEN [db |-> d, out |-> Threw("no such column: \"clock_out\"")]
         ELSE Mutate(d, [d EXCEPT !.renamed = TRUE])
    [] q = "SYNTAX" ->      \* SELEC * FROM shift_logs
         [db |-> d, out |-> Threw("near \"SELEC\": syntax error")]
    [] q = "TWO_SELECTS" -> \* SELECT employee_name FROM shift_logs;
                            \* SELECT clock_out FROM shift_logs
         TwoSelects(d)

(***************************************************************************)
(* The application (src/unnamed/part_000).  Three chapters stand for the   *)
(* seven of the book: chapter 1 with two steps, chapters 2 and 5 with one, *)
(* so that each text of makeStandardValidator has a step.  A position is   *)
(* the pair of 0-based indexes chapterIndex, stepIndex that chapId and     *)
(* stepId denote.                                                          *)
(***************************************************************************)
\* hints of a step: every authored step has a ladder of three strings, here
\* named by their rung
Ladder(stepId) ==
  << "hint 1 of " \o stepId, "hint 2 of " \o stepId, "hint 3 of " \o stepId >>

\* a Step: its id, the text its validator comes from, the opts passed
StepOf(stepId, idCodes, variant) ==
  [id |-> stepId, code |-> idCodes, variant |-> variant,
   opts |-> [enforceOrder |-> Bool(TRUE)], hints |-> Ladder(stepId)]

\* const CHAPTERS; code holds the characters of the ids ("1", "1-1", ...)
CHAPTERS ==
  << [id |-> "1", code |-> <<49>>,
      steps |-> << StepOf("1-1", <<49, 45, 49>>, "part_004"),
                   StepOf("1-2", <<49, 45, 50>>, "part_004") >>],
     [id |-> "2", code |-> <<50>>,
      steps |-> << StepOf("2-1", <<50, 45, 49>>, "chapter2") >>],
     [id |-> "5", code |-> <<53>>,
      steps |-> << StepOf("5-1", <<53, 45, 49>>, "chapter5") >>] >>

\* the positions that denote a step
Positions ==
  UNION { { [c |-> c, s |-> s] : s \in 0..(Len(CHAPTERS[c + 1].steps) - 1) } :
            c \in 0..(Len(CHAPTERS) - 1) }

\* currentChapter and currentStep at a position
ChapterAt(p) == CHAPTERS[p.c + 1]

StepAt(p) == ChapterAt(p).steps[p.s + 1]

\* the key of a step in the progress record: progress[chapId][stepId]
ProgressKey(p) == <<ChapterAt(p).id, StepAt(p).id>>

\* isStepDone
isStepDone(prog, p) == ProgressKey(p) \in prog

\* s.startsWith(prefix), on strings as sequences of characters
startsWith(s, prefix) ==
  Len(s) >= Len(prefix) /\ SubSeq(s, 1, Len(prefix)) = prefix

\* `${chapId}-${currentStep.id}-${Date.now()}`: the id of a live pin; the
\* time stamp is the one character "0"
PinId(p) == ChapterAt(p).code \o <<45>> \o StepAt(p).code \o <<45, 48>>

\* `S-${chId}-${Date.now()}`: the id of a chapter summary
SummaryId(ch) == <<83, 45>> \o ch.code \o <<45, 48>>

\* a CaseNote
Note(id) == [id |-> id]

\* isChapterComplete(chId, prog)
isChapterComplete(ch, prog) ==
  Cardinality({k \in prog : k[1] = ch.id}) >= Len(ch.steps)

\* rollupChapter(chId) on the notes of the render: the notes it sets, if any
rollupChapter(ch, nts) ==
  LET summarized == \E i \in 1..Len(nts) :
                       startsWith(nts[i].id, <<83, 45>> \o ch.code \o <<45>>)
      live(n) == startsWith(n.id, ch.code \o <<45>>)
      kept(n) == ~live(n)
      hasLivePins == \E i \in 1..Len(nts) : live(nts[i])
  IN IF summarized \/ ~hasLivePins THEN [set |-> FALSE, notes |-> nts]
     ELSE [set |-> TRUE,
           notes |-> <<Note(SummaryId(ch))>> \o SelectSeq(nts, kept)]

\* the effect on [progress]: every complete chapter is rolled up, each call
\* reading the notes of the same render; the last setNotes is the one kept
RECURSIVE RollupFrom(_, _, _, _)
RollupFrom(c, prog, nts, kept) ==
  IF c > Len(CHAPTERS) THEN kept
  ELSE LET r == rollupChapter(CHAPTERS[c], nts)
       IN RollupFrom(c + 1, prog, nts,
                     IF isChapterComplete(CHAPTERS[c], prog) /\ r.set
                     THEN r.notes ELSE kept)

RollupEffect(prog, nts) == RollupFrom(1, prog, nts, nts)


(***************************************************************************)
(* StepCard (src/src/components/StepCard.tsx).  A string of the interface  *)
(* is Text(s); the signs that open a check message (U+2705, U+26A0) are    *)
(* written "[ok] " and "[!] ".                                             *)
(***************************************************************************)
Text(s) == [text |-> s]

\* the steps of the book
Steps == { StepAt(p) : p \in Positions }

NoTelemetry ==
  [ran |-> FALSE, columnsOk |-> Null, rowCountOk |-> Null, orderOk |-> Null,
   hint |-> Null, expected |-> Null]

\* evaluate(user): the telemetry set after a Run; out is db.exec(step.modelSql)
evaluate(out, user) ==
  IF out.threw
  THEN [ran |-> TRUE, columnsOk |-> Null, rowCountOk |-> Null, orderOk |-> Null,
        hint |-> Text("Internal model error."), expected |-> Null]
  ELSE LET model == execQuery(out)
           colsOk == JSONstringify(user.columns) = JSONstringify(model.columns)
           rowsOk == Len(user.rows) = Len(model.rows)
           match == \A i \in 1..Len(user.rows) : \A j \in 1..Len(user.rows[i]) :
                       norm(user.rows[i][j]) = norm(At(model.rows[i], j))
           orderOk == IF colsOk /\ rowsOk THEN Bool(match) ELSE Null
       IN [ran |-> TRUE, columnsOk |-> Bool(colsOk), rowCountOk |-> Bool(rowsOk),
           orderOk |-> orderOk,
           hint |-> IF ~colsOk THEN Text("Columns mismatch. Check names/order.")
                    ELSE IF ~rowsOk
                    THEN Text("Row count should be " \o ToString(Len(model.rows)) \o ".")
                    ELSE IF orderOk = Bool(FALSE)
                    THEN Text("Ordering differs. Check ORDER BY.")
                    ELSE Null,
           expected |-> [columns |-> model.columns, rows |-> Len(model.rows)]]

\* one db.exec call: the function that made it and the statement
Exec(by, q) == [by |-> by, sql |-> q]

\* what `last` holds after a handler
Handled(handler, execs) == [handler |-> handler, execs |-> execs]

\* StepCard mounted on step st with the completed prop done, after its
\* effect ran; the database freshly seeded
SessionStart(st, done) ==
  /\ db = SeedDb
  /\ step = st
  /\ completed = done
  /\ sql = starterSql
  /\ result = Null
  /\ error = Null
  /\ checkMsg = Null
  /\ won = done
  /\ telemetry = NoTelemetry
  /\ verdict = Null
  /\ last = Handled("mount", <<>>)

(***************************************************************************)
(* localStorage and the effects of App.                                    *)
(***************************************************************************)
LS_PROGRESS == "sql-noir-progress"

LS_CASEBOARD == "sql-noir-caseboard"

LS_CASEBOARD_COLLAPSE == "sql-noir-caseboard-collapsed"

SEEN_PROLOGUE == "sql-noir:seen:prologue"

SEEN_CH1_EPILOGUE == "sql-noir:seen:ch1-epilogue"

SEEN_CH2_HOOK == "sql-noir:seen:ch2-hook"

\* the keys the application writes; all of them start with 'sql-noir'
StorageKeys ==
  {LS_PROGRESS, LS_CASEBOARD, LS_CASEBOARD_COLLAPSE, SEEN_PROLOGUE,
   SEEN_CH1_EPILOGUE, SEEN_CH2_HOOK}

\* what follows 'sql-noir' in the keys
KeyTails ==
  {"-progress", "-caseboard", "-caseboard-collapsed", ":seen:prologue",
   ":seen:ch1-epilogue", ":seen:ch2-hook"}

\* k.startsWith(prefix), for the keys of localStorage
keyStartsWith(k, prefix) == \E tail \in KeyTails \cup {""} : k = prefix \o tail

\* localStorage.getItem(k) === null, and a stored value
Absent == [absent |-> TRUE]

Stored(v) == [v |-> v]

EmptyStorage == [k \in StorageKeys |-> Absent]

NoOverlay == [prologue |-> FALSE, ch1Epilogue |-> FALSE, ch2Hook |-> FALSE]

\* [newNote, ...notes].slice(0, 200), the 200 scaled to MaxNotes
Newest(nts) == SubSeq(nts, 1, IF Len(nts) < MaxNotes THEN Len(nts) ELSE MaxNotes)

\* the effect on [isChapter1Complete]: it runs when the value changed
Ch1EpilogueEffect(before, after, stor, ov) ==
  IF /\ isChapterComplete(CHAPTERS[1], after)
     /\ ~isChapterComplete(CHAPTERS[1], before)
     /\ stor[SEEN_CH1_EPILOGUE] # Stored("1")
  THEN [ov EXCEPT !.ch1Epilogue = TRUE]
  ELSE ov

\* the effect on [chapId]: it runs when the chapter changed
Ch2HookEffect(before, after, stor, ov) ==
  IF after # before /\ after = "2" /\ stor[SEEN_CH2_HOOK] # Stored("1")
  THEN [ov EXCEPT !.ch2Hook = TRUE]
  ELSE ov

\* markComplete that builds the progress from the current step alone, without
\* the spread of the flags already set
markComplete_DropsOthers ==
  LET p == {ProgressKey(pos)}
      newNotes == Newest(<<Note(PinId(pos))>> \o notes)
      updated == RollupEffect(p, newNotes)
  IN /\ progress' = p
     /\ notes' = updated
     /\ storage' = [storage EXCEPT ![LS_PROGRESS] = Stored(p),
                                   ![LS_CASEBOARD] = Stored(updated)]
     /\ overlay' = Ch1EpilogueEffect(progress, p, storage, overlay)
     /\ UNCHANGED <<card, pos, collapsed, loading>>

\* markComplete(note), called by StepCard as onComplete, and the effects of
\* the render that follows: the roll-up of complete chapters and the epilogue
\* of chapter 1.  The completed prop of the card becomes true.
markComplete ==
  LET p == progress \cup {ProgressKey(pos)}
      newNotes == Newest(<<Note(PinId(pos))>> \o notes)
      updated == RollupEffect(p, newNotes)
  IN /\ progress' = p
     /\ notes' = updated
     /\ storage' = [storage EXCEPT ![LS_PROGRESS] = Stored(p),
                                   ![LS_CASEBOARD] = Stored(updated)]
     /\ overlay' = Ch1EpilogueEffect(progress, p, storage, overlay)
     /\ UNCHANGED <<card, pos, collapsed, loading>>

\* App shows StepCard on the step at position p, whose flag is done, on a
\* seeded database; the prologue has been closed and the notes cleared
AppStart(cardText, p, done) ==
  /\ card = cardText
  /\ pos = p
  /\ progress = (IF done THEN {ProgressKey(p)} ELSE {})
  /\ notes = <<>>
  /\ collapsed = FALSE
  /\ storage = [EmptyStorage EXCEPT
                  ![SEEN_PROLOGUE] = Stored("1"),
                  ![LS_PROGRESS] = IF done THEN Stored({ProgressKey(p)}) ELSE Absent,
                  ![LS_CASEBOARD] = IF done THEN Stored(<<>>) ELSE Absent]
  /\ overlay = NoOverlay
  /\ loading = 0
  /\ hintLevel = 0

(***************************************************************************)
(* SpecValidator: one invocation of a validator on arbitrary inputs.       *)
(***************************************************************************)
InitValidator ==
  /\ call \in [user : UserResults, out : Outcomes]
  /\ ret = NotCalled
  /\ SessionStart(StepAt([c |-> 1, s |-> 0]), FALSE)
  /\ AppStart("StepCard.tsx", [c |-> 1, s |-> 0], FALSE)

\* await makeStandardValidator(modelSql, opts)(db, user)
Validate(variant, opts) ==
  /\ ret = NotCalled
  /\ LET r == makeStandardValidator(variant, opts, call.out, call.user)
     IN ret' = [done |-> TRUE, variant |-> variant, opts |-> opts,
                v |-> r.v, ran |-> r.ran, log |-> consoleOutput(variant, call.out)]
  /\ UNCHANGED call
  /\ UNCHANGED sessionVars
  /\ UNCHANGED appVars

NextValidator == \E variant \in Variants, opts \in OptsValues : Validate(variant, opts)

SpecValidator == InitValidator /\ [][NextValidator]_vars

(***************************************************************************)
(* SpecShape: one invocation of a validator on a learner result whose rows *)
(* need not have one value per column.  QueryResult types rows as any[][], *)
(* and the row-shape check of the validator exists for such results.       *)
(***************************************************************************)
\* rows of two values, of one value and of three values
RaggedRows ==
  Rows2 \cup { <<Str(sAnn)>>, <<Str(sBo), Str(sServer), Null>> }

RaggedResults ==
  { [columns |-> <<cA, cB>>, rows |-> vs] : vs \in RowSeqs(RaggedRows) }

InitShape ==
  /\ call \in [user : RaggedResults,
               out : { Returned(<<rs>>) : rs \in {x \in ResultSets : x.columns = <<cA, cB>>} }]
  /\ ret = NotCalled
  /\ SessionStart(StepAt([c |-> 1, s |-> 0]), FALSE)
  /\ AppStart("StepCard.tsx", [c |-> 1, s |-> 0], FALSE)

SpecShape == InitShape /\ [][NextValidator]_vars

(***************************************************************************)
(* Spec: a session on one step.  The learner edits the statement, runs it  *)
(* and checks the stored result.                                           *)
(***************************************************************************)
Init ==
  /\ call = [user |-> Null, out |-> Returned(<<>>)]
  /\ ret = NotCalled
  /\ \E p \in {x \in Positions : x.s = 0} :
       /\ SessionStart(StepAt(p), FALSE)
       /\ AppStart("StepCard.tsx", p, FALSE)

\* SqlEditor onChange: setSql
Edit(q) ==
  /\ q # sql
  /\ sql' = q
  /\ last' = Handled("setSql", <<>>)
  /\ UNCHANGED <<db, step, completed, result, error, checkMsg, won, telemetry, verdict>>
  /\ UNCHANGED validatorVars
  /\ UNCHANGED appVars

\* runSql() when db.exec(sql) returns
RunOk ==
  LET x == dbExec(db, sql)
      qr == execQuery(x.out)
      y == dbExec(x.db, modelSql)
  IN /\ ~x.out.threw
     /\ result' = qr
     /\ error' = Null
     /\ telemetry' = evaluate(y.out, qr)
     /\ checkMsg' = Null
     /\ db' = y.db
     /\ last' = Handled("runSql", <<Exec("runSql", sql), Exec("evaluate", modelSql)>>)
     /\ UNCHANGED <<step, completed, sql, won, verdict>>
     /\ UNCHANGED validatorVars
     /\ UNCHANGED appVars

\* RunFails that keeps the result of the Run before
RunFails_KeepsResult ==
  LET x == dbExec(db, sql)
  IN /\ x.out.threw
     /\ error' = Text(x.out.message)
     /\ telemetry' = NoTelemetry
     /\ checkMsg' = Null
     /\ db' = x.db
     /\ last' = Handled("runSql", <<Exec("runSql", sql)>>)
     /\ UNCHANGED <<step, completed, sql, result, won, verdict>>
     /\ UNCHANGED validatorVars
     /\ UNCHANGED appVars

\* runSql() when db.exec(sql) throws
RunFails ==
  LET x == dbExec(db, sql)
  IN /\ x.out.threw
     /\ error' = Text(x.out.message)
     /\ result' = Null
     /\ telemetry' = NoTelemetry
     /\ checkMsg' = Null
     /\ db' = x.db
     /\ last' = Handled("runSql", <<Exec("runSql", sql)>>)
     /\ UNCHANGED <<step, completed, sql, won, verdict>>
     /\ UNCHANGED validatorVars
     /\ UNCHANGED appVars

\* the validator was invoked by check(): call and ret hold the arguments of
\* the invocation (the learner's stored result, and what the reference query
\* does on the handle passed) and what it returned; ret.again tells that the
\* invocation before this one had the same arguments
Invoked(out, user, r) ==
  /\ call' = [user |-> user, out |-> out]
  /\ ret' = [done |-> TRUE, variant |-> step.variant, opts |-> step.opts,
             v |-> r.v, ran |-> r.ran, log |-> consoleOutput(step.variant, out),
             again |-> ret.done /\ call = [user |-> user, out |-> out]]

\* CheckFails with a validator that remembers the attempt before: a second
\* failing verdict in a row is the generic one
CheckFails_Escalates ==
  LET x == dbExec(db, modelSql)
      r == makeStandardValidator(step.variant, step.opts, x.out, result)
      v == IF ret.done /\ ~ret.v.ok THEN [ok |-> FALSE, hint |-> "Not quite."]
           ELSE r.v
  IN /\ ~r.v.ok
     /\ verdict' = v
     /\ checkMsg' = Text("[!] " \o v.hint)
     /\ db' = IF r.ran THEN x.db ELSE db
     /\ last' = Handled("check", IF r.ran THEN <<Exec("validator", modelSql)>> ELSE <<>>)
     /\ UNCHANGED <<step, completed, sql, error, won, telemetry>>
     /\ result' = userAfter(step.variant, step.opts, x.out, result)
     /\ UNCHANGED appVars
     /\ Invoked(x.out, result, [v |-> v, ran |-> r.ran])

\* CheckFails with the reference computed on the seeded data, not on the
\* session's handle
CheckFails_OnSeed ==
  LET x == dbExec(SeedDb, modelSql)
      r == makeStandardValidator(step.variant, step.opts, x.out, result)
  IN /\ ~r.v.ok
     /\ verdict' = r.v
     /\ checkMsg' = Text("[!] " \o r.v.hint)
     /\ db' = db
     /\ last' = Handled("check", IF r.ran THEN <<Exec("validator", modelSql)>> ELSE <<>>)
     /\ UNCHANGED <<step, completed, sql, error, won, telemetry>>
     /\ result' = userAfter(step.variant, step.opts, x.out, result)
     /\ UNCHANGED appVars
     /\ Invoked(x.out, result, r)

\* check() when the verdict is not ok
CheckFails ==
  LET x == dbExec(db, modelSql)
      r == makeStandardValidator(step.variant, step.opts, x.out, result)
  IN /\ ~r.v.ok
     /\ verdict' = r.v
     /\ checkMsg' = Text("[!] " \o r.v.hint)
     /\ db' = IF r.ran THEN x.db ELSE db
     /\ last' = Handled("check", IF r.ran THEN <<Exec("validator", modelSql)>> ELSE <<>>)
     /\ UNCHANGED <<step, completed, sql, error, won, telemetry>>
     /\ result' = userAfter(step.variant, step.opts, x.out, result)
     /\ UNCHANGED appVars
     /\ Invoked(x.out, result, r)

\* check() when the verdict is ok on a step already won: no onComplete
CheckPassesAgain ==
  LET x == dbExec(db, modelSql)
      r == makeStandardValidator(step.variant, step.opts, x.out, result)
  IN /\ r.v.ok
     /\ won
     /\ verdict' = r.v
     /\ checkMsg' = Text("[ok] Correct.")
     /\ db' = x.db
     /\ last' = Handled("check", <<Exec("validator", modelSql)>>)
     /\ UNCHANGED <<step, completed, sql, error, won, telemetry>>
     /\ result' = userAfter(step.variant, step.opts, x.out, result)
     /\ UNCHANGED appVars
     /\ Invoked(x.out, result, r)

\* check() when the verdict is ok for the first time: onComplete(caseNote)
\* sets the step's progress flag, the completed prop changes and the reset
\* effect of StepCard runs
CheckPassesFirst ==
  LET x == dbExec(db, modelSql)
      r == makeStandardValidator(step.variant, step.opts, x.out, result)
  IN /\ r.v.ok
     /\ ~won
     /\ verdict' = r.v
     /\ completed' = TRUE
     /\ sql' = starterSql
     /\ result' = Null
     /\ error' = Null
     /\ checkMsg' = Null
     /\ won' = TRUE
     /\ telemetry' = NoTelemetry
     /\ db' = x.db
     /\ last' = Handled("check", <<Exec("validator", modelSql)>>)
     /\ markComplete
     /\ UNCHANGED <<step, hintLevel>>
     /\ Invoked(x.out, result, r)

Next ==
  \/ \E q \in Statements : Edit(q)
  \/ RunOk
  \/ RunFails
  \/ CheckFails
  \/ CheckPassesAgain
  \/ CheckPassesFirst

Spec == Init /\ [][Next]_vars

(***************************************************************************)
(* SpecApp: App of src/unnamed/part_000 with the StepCard of               *)
(* src/src/components/StepCard.tsx.  The learner navigates, runs and       *)
(* checks statements, clears the notes and resets the game.                *)
(***************************************************************************)
\* StepCard is rendered when the database handle is set
Mounted == db # Null

\* CardReset without its setResult(null)
CardReset_KeepsResult(p, prog) ==
  /\ step' = StepAt(p)
  /\ completed' = isStepDone(prog, p)
  /\ sql' = starterSql
  /\ result' = result
  /\ error' = Null
  /\ checkMsg' = Null
  /\ won' = isStepDone(prog, p)
  /\ telemetry' = NoTelemetry
  /\ hintLevel' = 0

\* StepCard after its effect on [step, completed] ran, or freshly mounted, on
\* the step at p with the flags prog
CardReset(p, prog) ==
  /\ step' = StepAt(p)
  /\ completed' = isStepDone(prog, p)
  /\ sql' = starterSql
  /\ result' = Null
  /\ error' = Null
  /\ checkMsg' = Null
  /\ won' = isStepDone(prog, p)
  /\ telemetry' = NoTelemetry
  /\ hintLevel' = 0

\* what the model records of the validator's invocations by the card: the
\* record starts afresh when another step is displayed or the card unmounts
invocationVars == <<call, ret, verdict>>

NoInvocation ==
  /\ call' = [user |-> Null, out |-> Returned(<<>>)]
  /\ ret' = NotCalled
  /\ verdict' = Null

\* the state of StepCard
cardVars ==
  <<step, completed, sql, result, error, checkMsg, won, telemetry, hintLevel>>

\* onJump(chIdx, stIdx): the position it sets; none (the position stays) when
\* CHAPTERS[chIdx] is undefined, step 0 when ch.steps[stIdx] is undefined
onJumpTarget(chIdx, stIdx) ==
  IF chIdx \notin 0..(Len(CHAPTERS) - 1) THEN pos
  ELSE [c |-> chIdx,
        s |-> IF stIdx \in 0..(Len(CHAPTERS[chIdx + 1].steps) - 1) THEN stIdx ELSE 0]

\* onPrev with onNext's bound test: it also returns at the last chapter
onPrevTarget_StopsAtLast ==
  LET c == pos.c
      s == pos.s - 1
  IN IF s < 0
     THEN (IF c = 0 \/ c >= Len(CHAPTERS) - 1 THEN pos
           ELSE onJumpTarget(c - 1, Len(CHAPTERS[c].steps) - 1))
     ELSE onJumpTarget(c, s)

\* onPrev()
onPrevTarget ==
  LET c == pos.c
      s == pos.s - 1
  IN IF s < 0
     THEN (IF c = 0 THEN pos
           ELSE onJumpTarget(c - 1, Len(CHAPTERS[c].steps) - 1))
     ELSE onJumpTarget(c, s)

\* onNext()
onNextTarget ==
  LET c == pos.c
      s == pos.s + 1
  IN IF s >= Len(CHAPTERS[c + 1].steps)
     THEN (IF c >= Len(CHAPTERS) - 1 THEN pos ELSE onJumpTarget(c + 1, 0))
     ELSE onJumpTarget(c, s)

\* setChapId and setStepId to the position p, and the effects of the render
\* that follows: the hook of chapter 2, and the reset of StepCard when the
\* step changed
MoveTo(handler, p) ==
  /\ pos' = p
  /\ overlay' = Ch2HookEffect(ChapterAt(pos).id, ChapterAt(p).id, storage, overlay)
  /\ IF p = pos
     THEN UNCHANGED cardVars /\ UNCHANGED invocationVars
     ELSE CardReset(p, progress) /\ NoInvocation
  /\ last' = Handled(handler, <<>>)
  /\ UNCHANGED <<db, card, progress, notes, collapsed, storage, loading>>

\* the selects of MobileNav and the links of the sidebar: a chapter (its
\* step 0) or a step of the current chapter
onJump(chIdx, stIdx) == MoveTo("onJump", onJumpTarget(chIdx, stIdx))

onPrev == MoveTo("onPrev", onPrevTarget)

onNext == MoveTo("onNext", onNextTarget)

\* chapter-header onClick: toggleChapter(ch.id), ch the chapter at index chIdx
toggleChapter(chIdx) == MoveTo("toggleChapter", [c |-> chIdx, s |-> 0])

\* clearNotes()
clearNotes ==
  /\ notes' = <<>>
  /\ storage' = [storage EXCEPT ![LS_CASEBOARD] = Stored(<<>>)]
  /\ last' = Handled("clearNotes", <<>>)
  /\ UNCHANGED <<db, verdict, card, pos, progress, collapsed, overlay, loading>>
  /\ UNCHANGED cardVars
  /\ UNCHANGED validatorVars

\* toggleCollapse()
toggleCollapse ==
  /\ collapsed' = ~collapsed
  /\ storage' = [storage EXCEPT
                   ![LS_CASEBOARD_COLLAPSE] = Stored(IF ~collapsed THEN "1" ELSE "0")]
  /\ last' = Handled("toggleCollapse", <<>>)
  /\ UNCHANGED <<db, verdict, card, pos, progress, notes, overlay, loading>>
  /\ UNCHANGED cardVars
  /\ UNCHANGED validatorVars

\* onClose of an overlay that is shown (for the hook of chapter 2 onCta does
\* the same): the seen key is stored and the overlay hidden
closeOverlay(which, key) ==
  /\ overlay[which]
  /\ overlay' = [overlay EXCEPT ![which] = FALSE]
  /\ storage' = [storage EXCEPT ![key] = Stored("1")]
  /\ last' = Handled("onClose", <<>>)
  /\ UNCHANGED <<db, verdict, card, pos, progress, notes, collapsed, loading>>
  /\ UNCHANGED cardVars
  /\ UNCHANGED validatorVars

\* onCta of the prologue (to chapter '1') and of the epilogue of chapter 1 (to
\* chapter '2'): as onClose, then the first step of the chapter at index chIdx
ctaOverlay(which, key, chIdx) ==
  LET p == [c |-> chIdx, s |-> 0]
      stor == [storage EXCEPT ![key] = Stored("1")]
  IN /\ overlay[which]
     /\ storage' = stor
     /\ pos' = p
     /\ overlay' = Ch2HookEffect(ChapterAt(pos).id, ChapterAt(p).id, stor,
                                 [overlay EXCEPT ![which] = FALSE])
     /\ IF p = pos
        THEN UNCHANGED cardVars /\ UNCHANGED invocationVars
        ELSE CardReset(p, progress) /\ NoInvocation
     /\ last' = Handled("onCta", <<>>)
     /\ UNCHANGED <<db, card, progress, notes, collapsed, loading>>

\* what `last` holds after resetGame: yes is what window.confirm returned
Confirmed(yes) == [handler |-> "resetGame", execs |-> <<>>, yes |-> yes]

\* resetGame() when window.confirm returns false
resetGame_Declined ==
  /\ last' = Confirmed(FALSE)
  /\ UNCHANGED <<db, verdict>>
  /\ UNCHANGED cardVars
  /\ UNCHANGED appVars
  /\ UNCHANGED validatorVars

\* resetGame that keeps the keys of localStorage
resetGame_KeepsStorage ==
  /\ loading < MaxLoading
  /\ storage' = storage
  /\ progress' = {}
  /\ notes' = <<>>
  /\ collapsed' = FALSE
  /\ pos' = [c |-> 0, s |-> 0]
  /\ overlay' = [prologue |-> TRUE, ch1Epilogue |-> FALSE, ch2Hook |-> FALSE]
  /\ db' = Null
  /\ loading' = loading + 1
  /\ CardReset([c |-> 0, s |-> 0], {})
  /\ NoInvocation
  /\ last' = Confirmed(TRUE)
  /\ UNCHANGED card

\* resetGame() when window.confirm returns true, up to its await: the keys
\* are removed, the state is set back, the handle is null (StepCard is
\* unmounted) and one more initDb() is pending
resetGame ==
  /\ loading < MaxLoading
  /\ storage' = [k \in StorageKeys |->
                   IF keyStartsWith(k, "sql-noir") THEN Absent ELSE storage[k]]
  /\ progress' = {}
  /\ notes' = <<>>
  /\ collapsed' = FALSE
  /\ pos' = [c |-> 0, s |-> 0]
  /\ overlay' = [prologue |-> TRUE, ch1Epilogue |-> FALSE, ch2Hook |-> FALSE]
  /\ db' = Null
  /\ loading' = loading + 1
  /\ CardReset([c |-> 0, s |-> 0], {})
  /\ NoInvocation
  /\ last' = Confirmed(TRUE)
  /\ UNCHANGED card

\* a pending initDb() resolves: setDb(fresh).  StepCard mounts when the
\* handle was null, and keeps its state when it was not
initDbResolves ==
  /\ loading > 0
  /\ loading' = loading - 1
  /\ db' = SeedDb
  /\ last' = Handled("setDb", <<>>)
  /\ UNCHANGED <<verdict, card, pos, progress, notes, collapsed, storage, overlay>>
  /\ UNCHANGED cardVars
  /\ UNCHANGED validatorVars

\* the first visit: nothing stored, the prologue shown, initDb() pending
InitApp ==
  /\ call = [user |-> Null, out |-> Returned(<<>>)]
  /\ ret = NotCalled
  /\ db = Null
  /\ step = StepAt([c |-> 0, s |-> 0])
  /\ completed = FALSE
  /\ sql = starterSql
  /\ result = Null
  /\ error = Null
  /\ checkMsg = Null
  /\ won = FALSE
  /\ telemetry = NoTelemetry
  /\ verdict = Null
  /\ last = Handled("mount", <<>>)
  /\ card = "StepCard.tsx"
  /\ pos = [c |-> 0, s |-> 0]
  /\ progress = {}
  /\ notes = <<>>
  /\ collapsed = FALSE
  /\ storage = EmptyStorage
  /\ overlay = [prologue |-> TRUE, ch1Epilogue |-> FALSE, ch2Hook |-> FALSE]
  /\ loading = 1
  /\ hintLevel = 0

\* what the learner types in SpecApp
AppStatements == {"STARTER", "REF"}

\* an overlay is a modal dialog: while one is shown a click lands on it (a
\* click outside its card is its onClose), not on the page below
Modal == overlay.prologue \/ overlay.ch1Epilogue \/ overlay.ch2Hook

\* the handlers of StepCard and of MobileNav, rendered when db is set
CardActions ==
  \/ \E q \in AppStatements : Edit(q)
  \/ RunOk
  \/ CheckFails
  \/ CheckPassesAgain
  \/ CheckPassesFirst
  \/ \E p \in Positions : onJump(p.c, p.s)
  \/ onPrev
  \/ onNext

\* the handlers of the sidebar and of Caseboard
PageActions ==
  \/ \E c \in 0..(Len(CHAPTERS) - 1) : toggleChapter(c)
  \/ clearNotes
  \/ resetGame
  \/ resetGame_Declined

OverlayActions ==
  \/ closeOverlay("prologue", SEEN_PROLOGUE)
  \/ closeOverlay("ch1Epilogue", SEEN_CH1_EPILOGUE)
  \/ closeOverlay("ch2Hook", SEEN_CH2_HOOK)
  \/ ctaOverlay("prologue", SEEN_PROLOGUE, 0)
  \/ ctaOverlay("ch1Epilogue", SEEN_CH1_EPILOGUE, 1)

NextApp ==
  \/ ~Modal /\ Mounted /\ CardActions
  \/ ~Modal /\ PageActions
  \/ OverlayActions
  \/ initDbResolves

SpecApp == InitApp /\ [][NextApp]_vars

(***************************************************************************)
(* FairReset: the reset of the game.  The learner completes steps, deletes *)
(* rows, closes overlays, collapses the case board and resets the game;    *)
(* every pending initDb() resolves.                                        *)
(***************************************************************************)
\* what the learner types in FairReset
ResetStatements == {"REF", "DELETE_ALL"}

NextReset ==
  \/ ~Modal /\ Mounted /\ \E q \in ResetStatements : Edit(q)
  \/ ~Modal /\ Mounted /\ RunOk
  \/ ~Modal /\ Mounted /\ CheckFails
  \/ ~Modal /\ Mounted /\ CheckPassesFirst
  \/ ~Modal /\ Mounted /\ onNext
  \/ ~Modal /\ toggleCollapse
  \/ ~Modal /\ resetGame
  \/ ~Modal /\ resetGame_Declined
  \/ OverlayActions
  \/ initDbResolves

FairReset == InitApp /\ [][NextReset]_vars /\ WF_vars(initDbResolves)

(***************************************************************************)
(* SpecCard8: the StepCard of src/unnamed/part_008 under App.  Its state   *)
(* is held in the variables of the other card: hint in checkMsg, ok in     *)
(* won, tests in telemetry; hintLevel is its own.                          *)
(***************************************************************************)
\* the rows evaluateTests compares: Math.min(userRes.rows.length, 5)
OrderSample == 5

\* JSON.stringify of one value of a row
JSONvalue(v) ==
  CASE v.t = "string" -> QuoteString(v.s)
    [] v.t = "number" -> NumberToString(v.n)
    [] OTHER -> <<110, 117, 108, 108>>

RECURSIVE JoinValues(_)
JoinValues(row) ==
  IF row = <<>> THEN <<>>
  ELSE IF Len(row) = 1 THEN JSONvalue(row[1])
  ELSE JSONvalue(row[1]) \o <<44>> \o JoinValues(Tail(row))

\* rows.slice(0, k).map((r) => JSON.stringify(r)).join('|')
RECURSIVE JoinRows(_)
JoinRows(rows) ==
  IF rows = <<>> THEN <<>>
  ELSE IF Len(rows) = 1 THEN <<91>> \o JoinValues(rows[1]) \o <<93>>
  ELSE <<91>> \o JoinValues(rows[1]) \o <<93, 124>> \o JoinRows(Tail(rows))

FirstRows(rows, k) == SubSeq(rows, 1, IF Len(rows) < k THEN Len(rows) ELSE k)

\* evaluateTests(userRes) after a Run that returned; out is what
\* db.exec(step.modelSql) does.  The three tests are held in columnsOk,
\* rowCountOk and orderOk; setTests([]) is NoTelemetry
evaluateTests(out, userRes) ==
  IF out.threw THEN NoTelemetry
  ELSE LET model == execQuery(out)
           k == IF Len(userRes.rows) < OrderSample THEN Len(userRes.rows)
                ELSE OrderSample
       IN [ran |-> TRUE,
           columnsOk |-> Bool(JSONstringify(userRes.columns) = JSONstringify(model.columns)),
           rowCountOk |-> Bool(Len(userRes.rows) = Len(model.rows)),
           orderOk |-> IF Len(userRes.rows) = Len(model.rows)
                       THEN Bool(JoinRows(FirstRows(userRes.rows, k))
                                 = JoinRows(FirstRows(model.rows, k)))
                       ELSE Bool(FALSE),
           hint |-> Null, expected |-> Null]

\* onRun()
onRun ==
  LET x == dbExec(db, sql)
      qr == execQuery(x.out)
      y == dbExec(x.db, modelSql)
  IN /\ IF x.out.threw
        THEN /\ error' = Text(x.out.message)
             /\ result' = Null
             /\ telemetry' = NoTelemetry
             /\ db' = x.db
             /\ last' = Handled("onRun", <<Exec("onRun", sql)>>)
        ELSE /\ result' = qr
             /\ error' = Null
             /\ telemetry' = evaluateTests(y.out, qr)
             /\ db' = y.db
             /\ last' = Handled("onRun", <<Exec("onRun", sql),
                                          Exec("evaluateTests", modelSql)>>)
     /\ UNCHANGED <<step, completed, sql, checkMsg, won, verdict>>
     /\ UNCHANGED validatorVars
     /\ UNCHANGED appVars

\* onCheck(): the hint and ok are set from the verdict; a verdict that is not
\* ok climbs the ladder while a rung is left, and the rung's hint replaces
\* the validator's; a verdict ok calls onComplete(step.caseNote), and the
\* effect on [step.id, completed, step.starterSql] runs when completed changed
onCheck ==
  LET x == dbExec(db, modelSql)
      r == makeStandardValidator(step.variant, step.opts, x.out, result)
      climbs == ~r.v.ok /\ hintLevel < Len(step.hints)
  IN /\ verdict' = r.v
     /\ Invoked(x.out, result, r)
     /\ db' = IF r.ran THEN x.db ELSE db
     /\ last' = Handled("onCheck", IF r.ran THEN <<Exec("validator", modelSql)>> ELSE <<>>)
     /\ UNCHANGED step
     /\ IF r.v.ok
        THEN /\ markComplete
             /\ IF completed
                THEN /\ checkMsg' = Null
                     /\ won' = TRUE
                     /\ result' = userAfter(step.variant, step.opts, x.out, result)
                     /\ UNCHANGED <<completed, sql, error, telemetry, hintLevel>>
                ELSE /\ completed' = TRUE
                     /\ sql' = starterSql
                     /\ result' = Null
                     /\ error' = Null
                     /\ checkMsg' = Null
                     /\ won' = TRUE
                     /\ telemetry' = NoTelemetry
                     /\ hintLevel' = 0
        ELSE /\ checkMsg' = (IF climbs THEN Text(step.hints[hintLevel + 1])
                             ELSE Text(r.v.hint))
             /\ won' = FALSE
             /\ hintLevel' = (IF climbs THEN hintLevel + 1 ELSE hintLevel)
             /\ result' = userAfter(step.variant, step.opts, x.out, result)
             /\ UNCHANGED <<completed, sql, error, telemetry>>
             /\ UNCHANGED <<card, pos, progress, notes, collapsed, storage,
                            overlay, loading>>

\* what the learner types in SpecCard8
Card8Statements == {"STARTER", "REF", "PADDED", "SYNTAX"}

InitCard8 ==
  /\ call = [user |-> Null, out |-> Returned(<<>>)]
  /\ ret = NotCalled
  /\ \E p \in {x \in Positions : x.s = 0} :
       /\ SessionStart(StepAt(p), FALSE)
       /\ AppStart("part_008", p, FALSE)

NextCard8 ==
  \/ \E q \in Card8Statements : Edit(q)
  \/ onRun
  \/ onCheck
  \/ clearNotes

SpecCard8 == InitCard8 /\ [][NextCard8]_vars

(***************************************************************************)
(* Properties.  Those of the validator are checked under SpecValidator,    *)
(* on the state after one invocation; those of the session under Spec.     *)
(***************************************************************************)
\* the invocation of SpecValidator reached the comparison: the learner has a
\* result and the reference query returned
Compares == ret.done /\ call.user # Null /\ ~call.out.threw

\* the policy of the invocation
CallEnforceOrder == enforceOrderOf(ret.opts)

\* the reference result of the invocation
CallModel == execQuery(call.out)

\* a is b with its rows in some order
IsPermutation(a, b) ==
  /\ Len(a) = Len(b)
  /\ \E p \in [1..Len(a) -> 1..Len(a)] :
       /\ \A i, k \in 1..Len(a) : p[i] = p[k] => i = k
       /\ \A i \in 1..Len(a) : a[i] = b[p[i]]

SameRowCount == Len(call.user.rows) = Len(CallModel.rows)

\* the cells of the learner's result that have a counterpart in the reference
Cells ==
  { <<i, j>> \in (1..MaxRows + 1) \X (1..2) :
      /\ i <= Len(call.user.rows) /\ i <= Len(CallModel.rows)
      /\ j <= Len(call.user.rows[i]) /\ j <= Len(CallModel.rows[i]) }

----------------------------------------------------------------------------
\* C1: the verdict is the one of the first failing check in the order
\* presence, reference execution, columns, row count, row content: a later
\* check never changes the verdict of an earlier failing one.
C1_FirstFailingCheckWins ==
  ret.done =>
    IF call.user = Null
    THEN ret.v = [ok |-> FALSE, hint |-> "Run your SQL first."]
    ELSE IF call.out.threw
    THEN ret.v = [ok |-> FALSE, hint |-> "Internal model failed."]
    ELSE IF call.user.columns # CallModel.columns
    THEN ret.v = [ok |-> FALSE, hint |-> "Columns mismatch. Check names/order."]
    ELSE IF ~SameRowCount
    THEN /\ ~ret.v.ok
         /\ ret.v.hint \in {"Row count should be 0.", "Row count should be 1.",
                            "Row count should be 2.", "Row count should be 3."}
    ELSE \/ ret.v = [ok |-> TRUE]
         \/ /\ ~ret.v.ok
            /\ ret.v.hint \in {"Row shape mismatch.", "Ordering or values differ.",
                               "Values differ."}

\* C1 witness: wrong columns and a wrong row count together get the column hint
C1_Witness ==
  /\ Compares
  /\ call.user.columns # CallModel.columns
  /\ ~SameRowCount
  /\ ret.v.hint = "Columns mismatch. Check names/order."

----------------------------------------------------------------------------
\* C2 as stated: with enforceOrder = true, equal columns and the reference's
\* rows in a different order, the verdict is ok:false with the hint
\* 'Ordering or values differ.'
C2_AnyOtherOrderFails ==
  ( /\ Compares /\ CallEnforceOrder
    /\ call.user.columns = CallModel.columns
    /\ IsPermutation(call.user.rows, CallModel.rows)
    /\ call.user.rows # CallModel.rows )
  => ret.v = [ok |-> FALSE, hint |-> "Ordering or values differ."]

\* the two values differ for the text of the validator that compares them:
\* after trimming strings in the texts that trim, as they are in the others
DifferFor(variant, a, b) ==
  IF variant = "chapter5" THEN a # b
  ELSE (IF a.t = "string" THEN Str(trim(a.s)) ELSE a)
         # (IF b.t = "string" THEN Str(trim(b.s)) ELSE b)

\* C2 amended: with enforceOrder = true, equal columns and the reference's
\* rows in another order in which some position holds two values that differ
\* (after trimming, in the texts that trim), the verdict is ok:false with the
\* hint 'Ordering or values differ.'
C2_OtherOrderFails ==
  ( /\ Compares /\ CallEnforceOrder
    /\ call.user.columns = CallModel.columns
    /\ IsPermutation(call.user.rows, CallModel.rows)
    /\ \E c \in Cells :
         DifferFor(ret.variant, call.user.rows[c[1]][c[2]], CallModel.rows[c[1]][c[2]]) )
  => ret.v = [ok |-> FALSE, hint |-> "Ordering or values differ."]

\* C2 witness: the scenario of the spec, Ann and Bo swapped
C2_Witness ==
  /\ Compares /\ CallEnforceOrder
  /\ call.user.columns = CallModel.columns
  /\ CallModel.rows = << <<Str(sAnn), Str(sCook)>>, <<Str(sBo), Str(sServer)>> >>
  /\ call.user.rows = << <<Str(sBo), Str(sServer)>>, <<Str(sAnn), Str(sCook)>> >>
  /\ ret.v = [ok |-> FALSE, hint |-> "Ordering or values differ."]

----------------------------------------------------------------------------
\* C3: with enforceOrder = false, equal columns and the learner's rows any
\* permutation of the reference's rows, the verdict is ok:true.
C3_PermutationPasses ==
  ( /\ Compares /\ ~CallEnforceOrder
    /\ call.user.columns = CallModel.columns
    /\ IsPermutation(call.user.rows, CallModel.rows) )
  => ret.v = [ok |-> TRUE]

----------------------------------------------------------------------------
\* C4: when the reference query throws, a present learner result gets the
\* verdict ok:false with the fixed hint, and the hint is not the engine's
\* message.
C4_ReferenceFailureIsSoft ==
  (ret.done /\ call.user # Null /\ call.out.threw)
  => /\ ret.v = [ok |-> FALSE, hint |-> "Internal model failed."]
     /\ ret.v.hint # call.out.message

\* C4 witness: the reference threw while the learner held a result with rows
C4_Witness ==
  /\ ret.done /\ call.out.threw
  /\ call.user # Null /\ call.user.rows # <<>>
  /\ ret.v.hint = "Internal model failed."

----------------------------------------------------------------------------
\* C6: the column check is exact sequence equality: the verdict is the
\* 'Columns mismatch' one exactly when the two column sequences differ,
\* whatever the rows are.
C6_ColumnsExactSequence ==
  Compares =>
    ( (ret.v = [ok |-> FALSE, hint |-> "Columns mismatch. Check names/order."])
      <=> (call.user.columns # CallModel.columns) )

\* C6 witness: the reference's names in the other order over identical rows
C6_Witness ==
  /\ Compares
  /\ call.user.columns = <<cB, cA>> /\ CallModel.columns = <<cA, cB>>
  /\ call.user.rows = CallModel.rows
  /\ ret.v.hint = "Columns mismatch. Check names/order."

----------------------------------------------------------------------------
\* C7: with equal columns and a different row count the verdict is ok:false
\* and its hint states the reference's row count; the values are not looked at.
C7_RowCountHintStatesExpected ==
  ( /\ Compares
    /\ call.user.columns = CallModel.columns
    /\ ~SameRowCount )
  => /\ ~ret.v.ok
     /\ ret.v.hint = "Row count should be " \o ToString(Len(CallModel.rows)) \o "."

\* C7 witness: the learner's rows are the reference's first row only
C7_Witness ==
  /\ Compares
  /\ call.user.columns = CallModel.columns
  /\ Len(CallModel.rows) = 2
  /\ call.user.rows = SubSeq(CallModel.rows, 1, 1)
  /\ ret.v.hint = "Row count should be 2."

----------------------------------------------------------------------------
\* C8 as stated: a learner value "NULL", "" or 0 at the row and column
\* position of a reference null makes the verdict ok:false, under both
\* policies.
C8_NullPositionFails ==
  ( /\ Compares
    /\ \E c \in Cells :
         /\ CallModel.rows[c[1]][c[2]] = Null
         /\ call.user.rows[c[1]][c[2]] \in {Str(sNULL), Str(sEmpty), Num(0)} )
  => ~ret.v.ok

\* the number of nulls in column j of the rows
NullCount(rows, j) ==
  Cardinality({i \in 1..Len(rows) : j <= Len(rows[i]) /\ rows[i][j] = Null})

\* C8 amended: a verdict ok:true means that, under enforceOrder = true, the
\* learner's result has a null exactly at the positions of the reference's
\* nulls, and under enforceOrder = false that this holds of the two sides
\* once sorted, so both hold the same number of nulls in every column.
C8_NullMatchesOnlyNull ==
  (Compares /\ ret.v.ok) =>
    LET A == IF CallEnforceOrder THEN call.user.rows ELSE sort(call.user.rows)
        B == IF CallEnforceOrder THEN CallModel.rows ELSE sort(CallModel.rows)
    IN /\ \A c \in Cells : (B[c[1]][c[2]] = Null) <=> (A[c[1]][c[2]] = Null)
       /\ \A j \in 1..2 : NullCount(call.user.rows, j) = NullCount(CallModel.rows, j)

\* C8 witness: "" where the reference has null, the rest equal, is refused
C8_Witness ==
  /\ Compares /\ CallEnforceOrder
  /\ call.user.columns = CallModel.columns
  /\ CallModel.rows = << <<Null>> >>
  /\ call.user.rows = << <<Str(sEmpty)>> >>
  /\ ret.v = [ok |-> FALSE, hint |-> "Ordering or values differ."]

----------------------------------------------------------------------------
\* C9: in every text of the validator, results whose values are equal once
\* strings are trimmed (columns and row count equal) get ok:true.
C9_TrimmedEqualPasses ==
  ( /\ Compares /\ CallEnforceOrder
    /\ call.user.columns = CallModel.columns
    /\ SameRowCount
    /\ \A c \in Cells :
         ~DifferFor("chapter2", call.user.rows[c[1]][c[2]], CallModel.rows[c[1]][c[2]]) )
  => ret.v = [ok |-> TRUE]

----------------------------------------------------------------------------
\* C5: a check that executes the reference query does so with a stored
\* learner result (a Run came first) and on the session's database as the
\* learner's statements left it: when the reference query throws there, the
\* verdict is the internal-failure one, shown as the check message.
C5_ReferenceRunsOnMutatedDb ==
  [][ (last'.handler = "check" /\ last'.execs # <<>>)
      => /\ result # Null
         /\ db' = db
         /\ (dbExec(db, "REF").out.threw
               => /\ verdict' = [ok |-> FALSE, hint |-> "Internal model failed."]
                  /\ checkMsg' = Text("[!] Internal model failed.")) ]_vars

\* C5 witness: the learner ran DROP TABLE shift_logs, then checked
C5_Witness ==
  /\ last.handler = "check"
  /\ "shift_logs" \notin db.tables
  /\ result = [columns |-> <<>>, rows |-> <<>>]
  /\ verdict = [ok |-> FALSE, hint |-> "Internal model failed."]

----------------------------------------------------------------------------
\* C10: a check without a stored result gives the 'run your query first'
\* verdict, makes no db.exec call and leaves the database as it was, also
\* when the reference query would throw.
C10_AbsentResultIsNotRun ==
  [][ (last'.handler = "check" /\ result = Null)
      => /\ verdict' = [ok |-> FALSE, hint |-> "Run your SQL first."]
         /\ checkMsg' = Text("[!] Run your SQL first.")
         /\ last'.execs = <<>>
         /\ db' = db ]_vars

\* C10 witness: checked without a result on a database whose reference
\* query throws
C10_Witness ==
  /\ last.handler = "check"
  /\ result = Null
  /\ dbExec(db, "REF").out.threw
  /\ verdict = [ok |-> FALSE, hint |-> "Run your SQL first."]

----------------------------------------------------------------------------
\* the rows of the two results, as the policy has them compared, agree row by
\* row: the same number of values, and no position whose two values differ
\* for the text of the validator
RowsAgree(variant, enforceOrder, userRows, modelRows) ==
  LET A == IF enforceOrder THEN userRows ELSE sort(userRows)
      B == IF enforceOrder THEN modelRows ELSE sort(modelRows)
  IN /\ Len(A) = Len(B)
     /\ \A i \in 1..Len(A) :
          /\ Len(A[i]) = Len(B[i])
          /\ \A j \in 1..Len(A[i]) : ~DifferFor(variant, A[i][j], B[i][j])

\* C11: every invocation returns a verdict; the verdict has a hint exactly
\* when ok is false; ok:true is returned only when the learner's result is
\* present, the reference query returned, the columns and the row counts are
\* equal and the rows agree.
C11_VerdictShape ==
  ret.done =>
    /\ ret.v.ok \in BOOLEAN
    /\ DOMAIN ret.v = (IF ret.v.ok THEN {"ok"} ELSE {"ok", "hint"})
    /\ ret.v.ok =>
         /\ call.user # Null
         /\ ~call.out.threw
         /\ call.user.columns = CallModel.columns
         /\ SameRowCount
         /\ RowsAgree(ret.variant, CallEnforceOrder, call.user.rows, CallModel.rows)

\* C11 witness: a verdict ok:true, without hint, for two rows that agree only
\* after trimming
C11_Witness ==
  /\ Compares
  /\ Len(call.user.rows) = 2
  /\ call.user.rows # CallModel.rows
  /\ ret.v = [ok |-> TRUE]
  /\ DOMAIN ret.v = {"ok"}

----------------------------------------------------------------------------
----------------------------------------------------------------------------
\* C13: a Run whose db.exec returns stores the empty result {columns: [],
\* rows: []} when the engine reports no result set, and otherwise exactly the
\* columns and the rows of the first result set, whatever further result sets
\* follow; every stored row has one value per stored column.
C13_FirstResultSetOnly ==
  [][ (last'.handler = "runSql" /\ ~dbExec(db, sql).out.threw)
      => LET res == dbExec(db, sql).out.res
         IN /\ Len(res) = 0 => result' = [columns |-> <<>>, rows |-> <<>>]
            /\ Len(res) > 0
                 => /\ result'.columns = res[1].columns
                    /\ result'.rows = res[1].values
            /\ \A i \in 1..Len(result'.rows) :
                 Len(result'.rows[i]) = Len(result'.columns) ]_vars

\* C13 witness: two SELECTs were run in one statement and the stored result
\* is the one of the first, the names
C13_Witness ==
  /\ last.handler = "runSql"
  /\ sql = "TWO_SELECTS"
  /\ Len(dbExec(db, sql).out.res) = 2
  /\ result = [columns |-> <<cName>>, rows |-> << <<Str(sBo)>>, <<Str(sAnn)>> >>]

----------------------------------------------------------------------------
\* C14: a Run whose db.exec throws stores the engine's message as the error,
\* unchanged, makes the stored result absent and invokes no validator (the
\* reference query is not executed); a Check issued right after it gets the
\* 'run your query first' verdict, also when an earlier Run had succeeded.
C14_FailedRunLeavesNoResult ==
  [][ /\ (last'.handler = "runSql" /\ dbExec(db, sql).out.threw)
         => /\ error' = Text(dbExec(db, sql).out.message)
            /\ result' = Null
            /\ last'.execs = <<Exec("runSql", sql)>>
            /\ verdict' = verdict /\ ret' = ret
      /\ (last.handler = "runSql" /\ error # Null /\ last'.handler = "check")
         => /\ verdict' = [ok |-> FALSE, hint |-> "Run your SQL first."]
            /\ checkMsg' = Text("[!] Run your SQL first.")
            /\ last'.execs = <<>> ]_vars

\* C14 witness: on a step already won, a Run failed with a syntax error and
\* the Check after it said 'run first'
C14_Witness ==
  /\ last.handler = "check"
  /\ sql = "SYNTAX"
  /\ error = Text("near \"SELEC\": syntax error")
  /\ result = Null
  /\ won
  /\ verdict = [ok |-> FALSE, hint |-> "Run your SQL first."]

----------------------------------------------------------------------------
\* C15: with equal columns and equal row counts, a learner row that has
\* another number of values than the reference row at its place gets the
\* verdict ok:false with the hint 'Row shape mismatch.', in every text of the
\* validator.
C15_RowShapeMismatchFails ==
  ( /\ Compares /\ CallEnforceOrder
    /\ call.user.columns = CallModel.columns
    /\ SameRowCount
    /\ \E i \in 1..Len(call.user.rows) :
         Len(call.user.rows[i]) # Len(CallModel.rows[i]) )
  => ret.v = [ok |-> FALSE, hint |-> "Row shape mismatch."]

----------------------------------------------------------------------------
\* C16: a mismatch of the rows' content (columns and row counts equal) gets
\* the hint 'Values differ.' under enforceOrder = false and the hint
\* 'Ordering or values differ.' under enforceOrder = true, in every text of
\* the validator.
C16_HintFollowsPolicy ==
  ( /\ Compares
    /\ call.user.columns = CallModel.columns
    /\ SameRowCount
    /\ ~ret.v.ok )
  => ret.v.hint = (IF CallEnforceOrder THEN "Ordering or values differ."
                   ELSE "Values differ.")

----------------------------------------------------------------------------
\* C17: a validator built without opts, or with opts whose enforceOrder is
\* undefined, returns on every input the verdict of the validator built with
\* { enforceOrder: true }; it never gives the hint of the unordered policy.
C17_DefaultIsOrdered ==
  (ret.done /\ ret.opts \in {Undefined, [enforceOrder |-> Undefined]})
  => /\ ret.v = makeStandardValidator(ret.variant, [enforceOrder |-> Bool(TRUE)],
                                      call.out, call.user).v
     /\ ~ret.v.ok => ret.v.hint # "Values differ."

\* C17 witness: a validator built without opts refuses the reference's rows
\* in another order, which the unordered policy accepts
C17_Witness ==
  /\ Compares
  /\ ret.opts = Undefined
  /\ call.user.rows # CallModel.rows
  /\ ret.v = [ok |-> FALSE, hint |-> "Ordering or values differ."]
  /\ makeStandardValidator(ret.variant, [enforceOrder |-> Bool(FALSE)],
                           call.out, call.user).v.ok

----------------------------------------------------------------------------
\* C18: whatever the learner ran before, a Check whose verdict is ok:true
\* judged a stored result that equals, under the step's policy, the result of
\* the step's reference query on the freshly seeded database.
C18_PassedMeansSeedTruth ==
  [][ (last'.handler = "check" /\ verdict'.ok)
      => LET truth == execQuery(dbExec(SeedDb, modelSql).out)
         IN /\ result # Null
            /\ result.columns = truth.columns
            /\ RowsAgree(step.variant, enforceOrderOf(step.opts),
                         result.rows, truth.rows) ]_vars

----------------------------------------------------------------------------
\* C19: when the reference query returns no result set, a present learner
\* result gets ok:true exactly when it is the empty result {columns: [],
\* rows: []} too, whatever statement produced it.
C19_EmptyReferenceMatchesEmpty ==
  (Compares /\ call.out.res = <<>>)
  => /\ CallModel = [columns |-> <<>>, rows |-> <<>>]
     /\ ret.v.ok <=> (call.user = [columns |-> <<>>, rows |-> <<>>])

\* C19 witness: of two learner results judged against an empty reference, the
\* empty one passed
C19_Witness ==
  /\ Compares
  /\ call.out.res = <<>>
  /\ call.user = [columns |-> <<>>, rows |-> <<>>]
  /\ ret.v = [ok |-> TRUE]

----------------------------------------------------------------------------
\* C20: on the same learner result, reference outcome and policy, a text of
\* the validator that trims returns ok:true whenever the text that compares
\* raw values does, and the same verdict as it whenever the learner's result
\* is absent, the reference query throws, the columns differ or the row
\* counts differ.
C20_TrimmingAtLeastAsLenient ==
  (ret.done /\ ret.variant = "chapter5")
  => \A tv \in {"chapter2", "part_004"} :
       LET t == makeStandardValidator(tv, ret.opts, call.out, call.user).v
       IN /\ ret.v.ok => t.ok
          /\ ( \/ call.user = Null
               \/ call.out.threw
               \/ call.user.columns # CallModel.columns
               \/ ~SameRowCount ) => t = ret.v

\* C20 witness: the raw text accepted a result holding a string with a
\* trailing blank, equal on both sides, and so does the trimming text
C20_Witness ==
  /\ Compares
  /\ ret.variant = "chapter5"
  /\ ret.v = [ok |-> TRUE]
  /\ \E i \in 1..Len(call.user.rows) : call.user.rows[i] = <<Str(s2300sp)>>
  /\ makeStandardValidator("chapter2", ret.opts, call.out, call.user).v.ok


(***************************************************************************)
(* Properties of the application, checked under SpecApp, FairApp and       *)
(* SpecCard8.                                                              *)
(***************************************************************************)
\* C21: on the first failed Check of a step that has a hint ladder (no rung
\* climbed yet), the hint displayed is the hint of the validator's verdict.
C21_FirstHintIsValidators ==
  [][(last'.handler = "onCheck" /\ ~verdict'.ok /\ hintLevel = 0
      /\ Len(step.hints) > 0)
     => checkMsg' = Text(verdict'.hint)]_vars

\* the notes of chapter ch that are summaries, and those that are live pins
Summaries(ch, nts) ==
  {i \in 1..Len(nts) : startsWith(nts[i].id, <<83, 45>> \o ch.code \o <<45>>)}

LivePins(ch, nts) ==
  {i \in 1..Len(nts) : startsWith(nts[i].id, ch.code \o <<45>>)}

\* C27: onComplete is invoked at most once per step between resets: a Check
\* with verdict ok on a step whose flag is already set adds no case note and
\* leaves the progress as it is.
C27_CompletesOnce ==
  [][(last'.handler \in {"check", "onCheck"} /\ verdict'.ok
      /\ ProgressKey(pos) \in progress)
     => (notes' = notes /\ progress' = progress)]_vars

\* C28: the notes hold at most one summary per chapter, a chapter that has a
\* summary has all its steps complete, and while it has a summary the notes
\* hold no live pin of it.
C28_OneSummaryNoLivePin ==
  \A c \in 1..Len(CHAPTERS) :
    /\ Cardinality(Summaries(CHAPTERS[c], notes)) <= 1
    /\ Summaries(CHAPTERS[c], notes) # {}
         => /\ isChapterComplete(CHAPTERS[c], progress)
            /\ LivePins(CHAPTERS[c], notes) = {}


\* C24: whenever the reference query fails inside a validator, the failure is
\* reported to a log besides the verdict returned.
C24_ReferenceFailureIsLogged ==
  (ret.done /\ ret.ran /\ call.out.threw) => ret.log # <<>>


\* C26: after a successful Run on a step with enforceOrder = true, the panel
\* reports columns ok, row count ok and order ok all true if and only if the
\* step's validator returns ok:true for the stored result on the database as
\* it is.
C26_PanelAgreesWithValidator ==
  (last.handler \in {"runSql", "onRun"} /\ result # Null
   /\ enforceOrderOf(step.opts))
  => LET x == dbExec(db, modelSql)
         r == makeStandardValidator(step.variant, step.opts, x.out, result)
     IN (/\ telemetry.columnsOk = Bool(TRUE)
         /\ telemetry.rowCountOk = Bool(TRUE)
         /\ telemetry.orderOk = Bool(TRUE)) <=> r.v.ok


Persisted(stor) ==
  IF stor[LS_PROGRESS] = Absent THEN {} ELSE stor[LS_PROGRESS].v

\* C23: a step's persisted flag is set only by a Check with verdict ok on
\* that step while it is displayed; a Check whose verdict is not ok leaves
\* the progress and the notes as they are; a flag that is set is removed
\* only by a confirmed reset.
C23_FlagSetByPassedCheckOnly ==
  [][/\ \A k \in Persisted(storage') \ Persisted(storage) :
          /\ last'.handler = "check"
          /\ verdict'.ok
          /\ k = ProgressKey(pos)
          /\ step.id = k[2]
     /\ (last'.handler = "check" /\ ~verdict'.ok)
          => (progress' = progress /\ notes' = notes
              /\ Persisted(storage') = Persisted(storage))
     /\ \A k \in Persisted(storage) \ Persisted(storage') :
          last'.handler = "resetGame" /\ Persisted(storage') = {}]_vars

\* a flag set on another step is still persisted after navigation, a Run and
\* a Check that failed
C23_Witness ==
  /\ last.handler = "check"
  /\ ~verdict.ok
  /\ result # Null
  /\ ProgressKey(pos) \notin Persisted(storage)
  /\ Persisted(storage) # {}
  /\ Persisted(storage) = progress


LastStepOf(c) == Len(CHAPTERS[c + 1].steps) - 1

LastChapter == Len(CHAPTERS) - 1

\* C29: after onPrev, onNext or an in-range onJump the indexes denote a step
\* that exists; onNext from the last step of a chapter goes to step 0 of the
\* next chapter and onPrev from step 0 to the last step of the chapter
\* before; onPrev at the very first step and onNext at the very last step
\* leave the position as it is.
C29_NavigationStaysOnSteps ==
  [][/\ pos' \in Positions
     /\ last'.handler = "onNext"
          => pos' = (IF pos.s < LastStepOf(pos.c) THEN [c |-> pos.c, s |-> pos.s + 1]
                     ELSE IF pos.c < LastChapter THEN [c |-> pos.c + 1, s |-> 0]
                     ELSE pos)
     /\ last'.handler = "onPrev"
          => pos' = (IF pos.s > 0 THEN [c |-> pos.c, s |-> pos.s - 1]
                     ELSE IF pos.c > 0 THEN [c |-> pos.c - 1, s |-> LastStepOf(pos.c - 1)]
                     ELSE pos)]_vars

\* onPrev went from step 0 of the second chapter to the last step of the
\* first, which is not its step 0
C29_Witness ==
  /\ last.handler = "onPrev"
  /\ pos = [c |-> 0, s |-> LastStepOf(0)]
  /\ LastStepOf(0) > 0
  /\ step = StepAt(pos)


\* C30: resetGame changes the state only when the confirmation is accepted.
\* Accepted, it leaves the progress and the notes empty, no stored key that
\* starts with 'sql-noir', the position on the first step of the first
\* chapter, the prologue shown and the database handle absent; an absent
\* handle is eventually replaced by a freshly seeded database.  Declined, it
\* leaves progress, notes, position, storage and database as they are.
C30_ResetOnlyWhenConfirmed ==
  /\ [][last'.handler = "resetGame"
        => IF last'.yes
           THEN /\ progress' = {}
                /\ notes' = <<>>
                /\ \A k \in DOMAIN storage' :
                     keyStartsWith(k, "sql-noir") => storage'[k] = Absent
                /\ pos' = [c |-> 0, s |-> 0]
                /\ step' = StepAt([c |-> 0, s |-> 0])
                /\ ~completed'
                /\ overlay'.prologue
                /\ db' = Null
           ELSE /\ UNCHANGED <<progress, notes, pos, storage, db>>
                /\ UNCHANGED <<collapsed, overlay, loading>>
                /\ UNCHANGED cardVars]_vars
  /\ (db = Null ~> db = SeedDb)

\* the confirmed reset has run: nothing is stored, the prologue is shown and
\* no database is set
C30_Witness ==
  /\ last.handler = "resetGame"
  /\ last.yes
  /\ db = Null
  /\ progress = {}
  /\ storage = EmptyStorage
  /\ overlay.prologue

=============================================================================
